---------------------------- MODULE Spec2Model ----------------------------
(* analyze_network of src/app.py: an Erdos-Renyi graph is generated, drawn *)
(* twice, measured by four centralities, ranked, and its spectrum summed   *)
(* to the graph energy.  One action per statement group of the function.   *)
(*                                                                         *)
(* Numbers.  A probability is an integer number of hundredths (p = 50 is   *)
(* 0.50).  A degree, closeness or betweenness score is the double the      *)
(* library computes: every division, multiplication and addition of its    *)
(* formulas is carried out on the 53-bit mantissa in the order the library *)
(* performs it and rounded as the hardware rounds.  An eigenvector score   *)
(* is the place of the node's entry among the entries of the dominant      *)
(* eigenvector, which is exact, and the solver's rounding error in units   *)
(* in the last place; the entry itself, irrational in general, is not      *)
(* evaluated.  Nor are the eigenvalues of a matrix and their sum: they are *)
(* determined by the matrix and kept as such.                              *)
(*                                                                         *)
(* Library behaviour is that of networkx 3.3 with scipy's ARPACK wrapper;  *)
(* app.py imports both without pinning a version.                          *)
EXTENDS Integers, Sequences, FiniteSets, TLC

VARIABLES
    n, p, seed,       \* arguments of the call in progress
    pc,               \* position in analyze_network
    G,                \* the graph: [nodes, edges]
    mt,               \* the output sequence of random.Random(seed), once observed
    np_rand,          \* process-wide numpy random state: draws consumed so far
    arpack,           \* process-wide eigen-solver state: solves started so far
    deg_cent, close_cent, betw_cent, eig_cent,
    degrees,
    metric_dict, k, topk,   \* frame of the latest plot_topk call
    top_degree, top_close, top_betw, top_eig,
    eigenvals, graph_energy,
    vis,              \* deliveries to the visualization sink (plt.show) in this run
    text,             \* lines given to the text sink (print) in this run
    report,           \* <<>> until the call returns, then <<the returned dict>>
    err,              \* the exception that ended the run
    run,              \* number of the run in progress
    prev              \* what the previous run with these arguments left behind

args   == <<n, p, seed>>
proc   == <<mt, np_rand, arpack>>
cents  == <<deg_cent, close_cent, betw_cent, eig_cent>>
frame  == <<metric_dict, k, topk>>
tops   == <<top_degree, top_close, top_betw, top_eig>>
spect  == <<eigenvals, graph_energy>>
sinks  == <<vis, text>>
hist   == <<run, prev>>
vars   == <<n, p, seed, pc, G, mt, np_rand, arpack, deg_cent, close_cent,
            betw_cent, eig_cent, degrees, metric_dict, k, topk, top_degree,
            top_close, top_betw, top_eig, eigenvals, graph_energy, vis, text,
            report, err, run, prev>>

---------------------------------------------------------------------------
(* Bounds of the model *)

\* Largest node count tried (p = 0 and p = 1), the default apart.
MaxN == 6

\* Largest node count tried with any other p.
MaxRandN == 4

\* Calls of analyze_network made by one process with the same arguments.
MaxRuns == 2

\* Largest mapping and largest k handed to plot_topk on its own.
MaxM == 5

MaxK == 6

\* Largest power of A + I tried to order the entries of the dominant
\* eigenvector.
EigIter == 16

\* The last MaxRaised nodes are those whose eigenvector entry is tried with
\* a rounding error.
MaxRaised == 1

\* Program constants: the default n, k of plot_topk, the [:5] of the summary.
DefaultN == 50

TopChart == 10

TopReport == 5

None == "None"

NValues == ((0 - 1)..MaxN) \cup {DefaultN}
PValues == {0 - 50, 0, 50, 100, 150}
Seeds == {42}
\* Values random() can return, in hundredths.
Draws == {25, 75}
\* Significant bits of a double, and the bits of the words in which a
\* mantissa is held.
Precision == 53

WordBits == 14

\* A function written out as a table of its values.
Table(f) == f @@ <<>>

Min(a, b) == IF a < b THEN a ELSE b
Max(a, b) == IF a > b THEN a ELSE b

\* The sum of f over the members of S within lo..hi, by halves.
RECURSIVE SumRange(_, _, _, _)
SumRange(f, S, lo, hi) ==
    IF lo = hi THEN (IF lo \in S THEN f[lo] ELSE 0)
    ELSE LET mid == (lo + hi) \div 2
         IN SumRange(f, S, lo, mid) + SumRange(f, S, mid + 1, hi)

\* The sum of f over S, a set of numbers of 0..m-1.
SumOver(f, S, m) == IF S = {} THEN 0 ELSE SumRange(f, S, 0, m - 1)

---------------------------------------------------------------------------
(* Double arithmetic.  A positive double is [exp, man], the value          *)
(* man * 2^exp with 2^52 <= man < 2^53; man is held in ManWords words of   *)
(* WordBits bits, word 0 the lowest.  0.0 is Zero.  Every operation forms  *)
(* the exact result as a long integer times a power of two and rounds it   *)
(* once, to nearest, ties to even, as the hardware does.                   *)

Base == 2^WordBits

ManWords == (Precision + WordBits - 1) \div WordBits

LongWords == 2 * ManWords

\* Word i of the long integer N; the words not held are 0.
W(N, i) == IF i \in DOMAIN N THEN N[i] ELSE 0

\* The long integer of a natural number a.
Long(a) ==
    Table([i \in 0..(LongWords - 1) |->
             IF i = 0 THEN a % Base
             ELSE IF i = 1 THEN (a \div Base) % Base
             ELSE IF i = 2 THEN a \div (Base * Base)
             ELSE 0])

\* The lowest ManWords words of N.
Mantissa(N) == Table([i \in 0..(ManWords - 1) |-> W(N, i)])

Zero == [exp |-> 0, man |-> Mantissa(Long(0))]

\* Bit q of N, and the number of bits of N up to its leading 1.
Bit(N, q) == (W(N, q \div WordBits) \div 2^(q % WordBits)) % 2

BitLength(N) ==
    LET used == {i \in DOMAIN N : N[i] # 0}
        top == CHOOSE i \in used : \A j \in used : j <= i
        bits == CHOOSE t \in 1..WordBits : 2^(t - 1) <= N[top] /\ N[top] < 2^t
    IN IF used = {} THEN 0 ELSE top * WordBits + bits

\* N * 2^t and N \div 2^t.
ShiftLeft(N, t) ==
    LET q == t \div WordBits
        r == t % WordBits
    IN Table([i \in 0..(LongWords - 1) |->
                ((W(N, i - q) * 2^r) % Base) + (W(N, i - q - 1) \div 2^(WordBits - r))])

ShiftRight(N, t) ==
    LET q == t \div WordBits
        r == t % WordBits
    IN Table([i \in 0..(LongWords - 1) |->
                (W(N, i + q) \div 2^r) + ((W(N, i + q + 1) % 2^r) * 2^(WordBits - r))])

\* Whether one of the lowest t bits of N is 1.
AnyBelow(N, t) ==
    \E i \in DOMAIN N :
        \/ i < t \div WordBits /\ N[i] # 0
        \/ i = t \div WordBits /\ N[i] % 2^(t % WordBits) # 0

\* N + 1: the carry runs through the low words that are full.
Increment(N) ==
    LET open == {i \in DOMAIN N : N[i] # Base - 1}
        at == CHOOSE i \in open : \A j \in open : i <= j
    IN Table([i \in DOMAIN N |->
                IF i < at THEN 0 ELSE IF i = at THEN N[i] + 1 ELSE N[i]])

\* The sum of two long integers.
RECURSIVE SumCarry(_, _, _)
SumCarry(X, Y, i) ==
    IF i = 0 THEN 0
    ELSE (W(X, i - 1) + W(Y, i - 1) + SumCarry(X, Y, i - 1)) \div Base

Sum(X, Y) ==
    Table([i \in 0..(LongWords - 1) |->
             (W(X, i) + W(Y, i) + SumCarry(X, Y, i)) % Base])

\* The product of two mantissas, column by column.
Column(X, Y, c) ==
    SumOver(Table([i \in 0..c |-> W(X, i) * W(Y, c - i)]), 0..c, c + 1)

RECURSIVE ColumnCarry(_, _, _)
ColumnCarry(X, Y, c) ==
    IF c = 0 THEN 0
    ELSE (Column(X, Y, c - 1) + ColumnCarry(X, Y, c - 1)) \div Base

Product(X, Y) ==
    Table([c \in 0..(LongWords - 1) |->
             (Column(X, Y, c) + ColumnCarry(X, Y, c)) % Base])

\* Long division of N by a natural number b below 2^17: the remainder left
\* by the words from i up, and the quotient.
RECURSIVE Remainder(_, _, _)
Remainder(N, b, i) ==
    IF i >= LongWords THEN 0
    ELSE (Remainder(N, b, i + 1) * Base + W(N, i)) % b

Quotient(N, b) ==
    Table([i \in 0..(LongWords - 1) |->
             (Remainder(N, b, i + 1) * Base + W(N, i)) \div b])

\* The double nearest to N * 2^e, ties to even; `sticky` says that the exact
\* value lies above N * 2^e by less than 2^e.
Round(N, e, sticky) ==
    LET len == BitLength(N)
        t == len - Precision
        head == ShiftRight(N, t)
        half == Bit(N, t - 1) = 1
        rest == sticky \/ AnyBelow(N, t - 1)
        raised == Increment(head)
    IN IF len = 0 THEN Zero
       ELSE IF t <= 0 THEN [exp |-> e + t, man |-> Mantissa(ShiftLeft(N, 0 - t))]
       ELSE IF ~(half /\ (rest \/ head[0] % 2 = 1))
       THEN [exp |-> e + t, man |-> Mantissa(head)]
       ELSE IF BitLength(raised) > Precision
       THEN [exp |-> e + t + 1, man |-> Mantissa(ShiftRight(raised, 1))]
       ELSE [exp |-> e + t, man |-> Mantissa(raised)]

\* float(a) of a natural number a.
FromInt(a) == Round(Long(a), 0, FALSE)

One == FromInt(1)

\* x * y.
Mul(x, y) ==
    IF x = Zero \/ y = Zero THEN Zero
    ELSE Round(Product(x.man, y.man), x.exp + y.exp, FALSE)

\* x + y: a term below a quarter of the last place of the other is lost.
Add(x, y) ==
    LET hi == IF x.exp >= y.exp THEN x ELSE y
        lo == IF x.exp >= y.exp THEN y ELSE x
        d == hi.exp - lo.exp
    IN IF x = Zero THEN y
       ELSE IF y = Zero THEN x
       ELSE IF d > Precision + 2 THEN hi
       ELSE Round(Sum(ShiftLeft(hi.man, d), lo.man), lo.exp, FALSE)

\* x / b, b a positive integer (as an int or as an integer-valued double).
DivInt(x, b) ==
    LET N == ShiftLeft(x.man, 2 * WordBits)
    IN IF x = Zero THEN Zero
       ELSE Round(Quotient(N, b), x.exp - 2 * WordBits, Remainder(N, b, 0) # 0)

\* The double next above a positive double x.
Successor(x) ==
    LET raised == Increment(x.man)
    IN IF BitLength(raised) > Precision
       THEN [exp |-> x.exp + 1, man |-> Mantissa(ShiftRight(raised, 1))]
       ELSE [exp |-> x.exp, man |-> raised]

\* The double next below 1.0.
BelowOne ==
    [exp |-> 0 - Precision,
     man |-> Table([i \in 0..(ManWords - 1) |->
                      IF i < ManWords - 1 THEN Base - 1
                      ELSE 2^(Precision - (ManWords - 1) * WordBits) - 1])]

\* x < y for two doubles.
DoubleLess(x, y) ==
    IF x = Zero THEN y # Zero
    ELSE IF y = Zero THEN FALSE
    ELSE \/ x.exp < y.exp
         \/ /\ x.exp = y.exp
            /\ \E i \in DOMAIN x.man :
                  /\ x.man[i] < y.man[i]
                  /\ \A j \in DOMAIN x.man : j > i => x.man[j] = y.man[j]

\* x < y, as Python compares two scores of one mapping.  An eigenvector score
\* is [level, off]: the entry of the dominant eigenvector that has `level`
\* distinct entries below it, off by `off` units in the last place.
FLess(x, y) ==
    IF "level" \in DOMAIN x
    THEN x.level < y.level \/ (x.level = y.level /\ x.off < y.off)
    ELSE DoubleLess(x, y)

---------------------------------------------------------------------------
(* The graph *)

Nodes(m) == 0..(m - 1)

\* itertools.combinations(range(n), 2), in the order it yields the pairs.
RECURSIVE Combinations(_, _, _)
Combinations(m, u, v) ==
    IF u >= m - 1 THEN <<>>
    ELSE IF v >= m THEN Combinations(m, u + 1, u + 2)
    ELSE <<<<u, v>>>> \o Combinations(m, u, v + 1)

AllPairs(m) == {e \in Nodes(m) \X Nodes(m) : e[1] < e[2]}

Adjacent(g, u, v) == <<u, v>> \in g.edges \/ <<v, u>> \in g.edges
Neighbors(g, v) == {u \in g.nodes : Adjacent(g, u, v)}
Degree(g, v) == Cardinality(Neighbors(g, v))
Order(g) == Cardinality(g.nodes)

\* nx.Graph() with add_nodes_from(range(n)) and the edges given.
Graph(m, es) == [nodes |-> Nodes(m), edges |-> es]

---------------------------------------------------------------------------
(* nx.erdos_renyi_graph(n, p, seed) *)

\* Number of calls of seed.random() the generator makes.
DrawsNeeded(m, q) == IF q <= 0 \/ q >= 100 THEN 0 ELSE Len(Combinations(m, 0, 1))

\* The edges for which seed.random() < p, the i-th pair using the i-th output.
DrawnEdges(m, q, out) ==
    LET cs == Combinations(m, 0, 1)
    IN {cs[i] : i \in {j \in 1..Len(cs) : out[j] < q}}

\* What the generator raises, if anything.  gnp_random_graph adds the nodes
\* of range(n), returns for p <= 0 and hands p >= 1 to complete_graph, which
\* rejects a negative number of nodes; no other n or p is rejected.
GeneratorError(m, q) ==
    IF q > 0 /\ q >= 100 /\ m < 0 THEN "NetworkXError" ELSE None

\* gnp_random_graph: p <= 0 returns the edgeless graph and p >= 1 the complete
\* graph, both without drawing; range(n) is empty for n <= 0.
ErdosRenyi(m, q, out) ==
    IF q <= 0 THEN Graph(m, {})
    ELSE IF q >= 100 THEN Graph(m, AllPairs(m))
    ELSE Graph(m, DrawnEdges(m, q, out))

\* random.Random(seed) is a fixed function of the seed: the first generator to
\* use it observes its outputs, every later one replays them.
Outputs(observed, len) ==
    IF observed # {} THEN observed ELSE [1..len -> Draws]

---------------------------------------------------------------------------
(* Shortest paths *)

\* Breadth-first search from the nodes of `frontier`, all at distance d.
RECURSIVE Bfs(_, _, _, _)
Bfs(g, dist, frontier, d) ==
    IF frontier = {} THEN dist
    ELSE LET found == dist @@ [v \in frontier |-> d]
             nxt == {u \in g.nodes : u \notin DOMAIN found
                                      /\ \E v \in frontier : Adjacent(g, u, v)}
         IN Bfs(g, found, nxt, d + 1)

\* single_source_shortest_path_length: the nodes reachable from s, with distances.
PathLength(g, s) == Bfs(g, <<>>, {s}, 0)

IsConnected(g) == \E s \in g.nodes : DOMAIN PathLength(g, s) = g.nodes

\* The members of a sequence, a sequence backwards, the members of a set of
\* numbers in ascending order, and the members of s that lie in T, in the
\* order of s.
Range(s) == {s[i] : i \in DOMAIN s}

Reverse(s) == Table([i \in 1..Len(s) |-> s[Len(s) + 1 - i]])

Ascending(S) ==
    Table([r \in 1..Cardinality(S) |->
             CHOOSE x \in S : Cardinality({y \in S : y <= x}) = r])

Restrict(s, T) ==
    LET keep == Ascending({i \in 1..Len(s) : s[i] \in T})
    IN Table([r \in 1..Len(keep) |-> s[keep[r]]])

\* Brandes' search, _single_source_shortest_path_basic.  The nodes first
\* reached from the nodes of `level`, in the order they join the queue: by
\* the place in `level` of the node that reaches them first, then by id, a
\* node's neighbours being listed in ascending order.
NextLevel(g, seen, level) ==
    LET cand == {w \in g.nodes \ seen :
                    \E i \in 1..Len(level) : Adjacent(g, level[i], w)}
        from == Table([w \in cand |->
                    CHOOSE i \in 1..Len(level) :
                        /\ Adjacent(g, level[i], w)
                        /\ \A j \in 1..(i - 1) : ~Adjacent(g, level[j], w)])
        place == Table([w \in cand |->
                    1 + Cardinality({u \in cand :
                            \/ from[u] < from[w]
                            \/ from[u] = from[w] /\ u < w})])
    IN Table([r \in 1..Cardinality(cand) |-> CHOOSE w \in cand : place[w] = r])

\* The list S of the search by levels: ls[d + 1] holds the nodes at distance
\* d in the order the search visits them.
RECURSIVE Levels(_, _, _)
Levels(g, seen, ls) ==
    LET nxt == NextLevel(g, seen, ls[Len(ls)])
    IN IF nxt = <<>> THEN ls
       ELSE Levels(g, seen \cup Range(nxt), Append(ls, nxt))

\* sigma[w], the number of shortest paths from the source to w: the sum of
\* sigma over the predecessors of w, from level d on.
RECURSIVE CountPaths(_, _, _, _)
CountPaths(g, ls, sigma, d) ==
    IF d > Len(ls) THEN sigma
    ELSE CountPaths(g, ls,
            Table(sigma @@ [w \in Range(ls[d]) |->
                     SumOver(sigma, Neighbors(g, w) \cap Range(ls[d - 1]), Order(g))]),
            d + 1)

---------------------------------------------------------------------------
(* The four centralities *)

\* Variant: the degree divided by the number of nodes.
DegreeCentralityByOrder(g) ==
    IF Order(g) <= 1 THEN [v \in g.nodes |-> One]
    ELSE LET s == DivInt(One, Order(g))
         IN Table([v \in g.nodes |-> Mul(FromInt(Degree(g, v)), s)])

\* nx.degree_centrality: 1 for every node of a graph of at most one node,
\* else d * s with s = 1.0 / (len(G) - 1.0).
DegreeCentrality(g) ==
    IF Order(g) <= 1 THEN [v \in g.nodes |-> One]
    ELSE LET s == DivInt(One, Order(g) - 1)
         IN Table([v \in g.nodes |-> Mul(FromInt(Degree(g, v)), s)])

\* nx.closeness_centrality with wf_improved: (len(sp) - 1.0) / totsp times
\* s = (len(sp) - 1.0) / (len(G) - 1), sp the distances of the nodes reached;
\* 0.0 when totsp = 0.
ClosenessCentrality(g) ==
    Table([v \in g.nodes |->
        LET sp == PathLength(g, v)
            totsp == SumOver(sp, DOMAIN sp, Order(g))
            r == Cardinality(DOMAIN sp)
        IN IF totsp > 0 /\ Order(g) > 1
           THEN Mul(DivInt(FromInt(r - 1), totsp), DivInt(FromInt(r - 1), Order(g) - 1))
           ELSE Zero])

\* terms[1], ..., terms[i] added to 0 one after the other.
RECURSIVE Accumulated(_, _)
Accumulated(terms, i) ==
    IF i = 0 THEN Zero ELSE Add(Accumulated(terms, i - 1), terms[i])

\* Brandes' _accumulate_basic.  S is emptied from its end: the nodes w of a
\* level are taken in reverse order, each adding sigma[v] * coeff to the
\* delta of its predecessors v, coeff = (1 + delta[w]) / sigma[w].  The
\* delta of level d is complete when the level below has been taken.
RECURSIVE Accumulate(_, _, _, _, _)
Accumulate(g, ls, sigma, delta, d) ==
    IF d < 2 THEN delta
    ELSE LET below == IF d < Len(ls) THEN Reverse(ls[d + 1]) ELSE <<>>
             coeff == Table([w \in Range(below) |->
                               DivInt(Add(One, delta[w]), sigma[w])])
             added == Table([v \in Range(ls[d]) |->
                         LET ws == Restrict(below, Neighbors(g, v))
                         IN Table([i \in 1..Len(ws) |->
                                     Mul(FromInt(sigma[v]), coeff[ws[i]])])])
         IN Accumulate(g, ls, sigma,
               Table(delta @@ [v \in Range(ls[d]) |->
                                 Accumulated(added[v], Len(added[v]))]),
               d - 1)

\* delta[w] of every node w that source s reaches, s apart (the delta of the
\* source is not added to any score).
Dependencies(g, s) ==
    LET ls == Levels(g, {s}, <<<<s>>>>)
        sigma == CountPaths(g, ls, s :> 1, 2)
    IN Accumulate(g, ls, sigma, <<>>, Len(ls))

\* betweenness[v]: the delta[v] of the sources in node order, added to 0.0
\* one after the other (a delta of 0 leaves the sum as it is).
Betweenness(g, dep, v) ==
    LET from == Ascending({s \in g.nodes :
                              IF v \in DOMAIN dep[s] THEN dep[s][v] # Zero ELSE FALSE})
        terms == Table([i \in 1..Len(from) |-> dep[from[i]][v]])
    IN Accumulated(terms, Len(terms))

\* Variant: the end points of a path count as lying on it.
BetweennessWithEndpoints(g) ==
    LET dep == Table([s \in g.nodes |-> Dependencies(g, s)])
        m == Order(g)
        scale == DivInt(One, (m - 1) * (m - 2))
    IN Table([v \in g.nodes |->
          LET ends == Cardinality({s \in g.nodes : v \in DOMAIN dep[s]})
              raw == Add(Betweenness(g, dep, v), FromInt(2 * ends))
          IN IF m <= 2 THEN raw ELSE Mul(raw, scale)])

\* nx.betweenness_centrality, normalized, endpoints excluded: Brandes'
\* accumulation over every source, then _rescale: each score times
\* scale = 1 / ((n - 1) * (n - 2)) when n > 2.
BetweennessCentrality(g) ==
    LET dep == Table([s \in g.nodes |-> Dependencies(g, s)])
        m == Order(g)
        scale == DivInt(One, (m - 1) * (m - 2))
    IN Table([v \in g.nodes |->
          IF m <= 2 THEN Betweenness(g, dep, v)
          ELSE Mul(Betweenness(g, dep, v), scale)])

\* Variant: no connectivity check before the solver is called.
EigenvectorErrorUnchecked(g) ==
    IF Order(g) = 0 THEN "NetworkXPointlessConcept"
    ELSE IF 1 >= Order(g) - 1 THEN "TypeError"
    ELSE None

\* What eigenvector_centrality_numpy raises, if anything: the null graph is
\* pointless, a disconnected graph ambiguous, and scipy's eigs refuses k = 1
\* eigenvectors of a sparse matrix of order below 3.
EigenvectorError(g) ==
    IF Order(g) = 0 THEN "NetworkXPointlessConcept"
    ELSE IF ~IsConnected(g) THEN "AmbiguousSolution"
    ELSE IF 1 >= Order(g) - 1 THEN "TypeError"
    ELSE None

(* The entries of the dominant eigenvector x of the adjacency matrix A of  *)
(* a connected graph are irrational in general; what the ranking uses is   *)
(* their order, which is decided exactly, in integers:                     *)
(*  - x[u] = x[v] when u and v start equally many walks of every length,   *)
(*    which lengths below the number of cells of the coarsest equitable    *)
(*    partition settle (x lies in the span of the walk-count vectors);     *)
(*  - x[u] > x[v] when row u of (A + I)^j is at least row v in every       *)
(*    entry and larger in one, for some j (x is positive and (A + I)^j x   *)
(*    is a positive multiple of x).                                        *)

\* One refinement of a colouring: nodes keep a common colour when they have
\* equally many neighbours of every colour.  A colour is the least node of
\* its class.
Refine(g, col) ==
    LET cols == {col[v] : v \in g.nodes}
        cnt == Table([v \in g.nodes |->
                  Table([c \in cols |->
                      Cardinality({w \in Neighbors(g, v) : col[w] = c})])])
    IN Table([v \in g.nodes |->
          CHOOSE u \in g.nodes :
              /\ col[u] = col[v] /\ cnt[u] = cnt[v]
              /\ \A t \in 0..(u - 1) : ~(col[t] = col[v] /\ cnt[t] = cnt[v])])

\* The coarsest equitable partition.
RECURSIVE Equitable(_, _)
Equitable(g, col) ==
    LET nxt == Refine(g, col)
    IN IF nxt = col THEN col ELSE Equitable(g, nxt)

\* The numbers of walks of lengths 0, 1, ..., len - 1 from every node.
RECURSIVE WalkCounts(_, _, _)
WalkCounts(g, ws, len) ==
    IF Len(ws) >= len THEN ws
    ELSE WalkCounts(g,
            Append(ws, Table([v \in g.nodes |->
                                SumOver(ws[Len(ws)], Neighbors(g, v), Order(g))])),
            len)

\* For every node, its walk counts up to the length that settles equality.
WalkProfile(g) ==
    LET col == Equitable(g, [v \in g.nodes |-> 0])
        cells == Cardinality({col[v] : v \in g.nodes})
        ws == WalkCounts(g, <<Table([v \in g.nodes |-> 1])>>, cells)
    IN Table([v \in g.nodes |-> Table([j \in 1..cells |-> ws[j][v]])])

\* Row u of R exceeds row v.
Dominates(g, R, u, v) ==
    /\ \A t \in g.nodes : R[u][t] >= R[v][t]
    /\ \E t \in g.nodes : R[u][t] > R[v][t]

\* R, a power of A + I, orders every two nodes that are not equal.
Decides(g, prof, R) ==
    \A u, v \in g.nodes :
        u < v => \/ prof[u] = prof[v]
                 \/ Dominates(g, R, u, v)
                 \/ Dominates(g, R, v, u)

\* The first power of A + I, from R = (A + I)^j on, that decides, or the
\* power EigIter.
RECURSIVE Separated(_, _, _, _)
Separated(g, prof, R, j) ==
    IF j >= EigIter \/ Decides(g, prof, R) THEN R
    ELSE Separated(g, prof,
            Table([u \in g.nodes |->
                Table([t \in g.nodes |->
                    R[u][t] + SumOver([w \in g.nodes |-> R[w][t]],
                                      Neighbors(g, u), Order(g))])]),
            j + 1)

\* level[v]: the number of distinct entries of the dominant eigenvector
\* below the entry of v.  Defined when the order is decided within EigIter
\* powers: every connected graph of up to five nodes is, and every graph
\* whose nodes all have the same degree.  A graph in which two nodes with
\* different walk counts have equal entries is not decided, and has no
\* value here.
EigenvectorOrder(g) ==
    LET prof == WalkProfile(g)
        R == Separated(g, prof, [u \in g.nodes |-> [t \in g.nodes |-> IF t = u THEN 1 ELSE 0]], 0)
        level == Table([v \in g.nodes |->
                    Cardinality({prof[u] : u \in {t \in g.nodes :
                                    prof[t] # prof[v] /\ Dominates(g, R, v, t)}})])
    IN CHOOSE lv \in {level} : Decides(g, prof, R)

\* The rounding errors of the solver that are tried: every entry exact, or
\* the entry of one of the last MaxRaised nodes a unit in the last place too
\* large.
RoundingErrors(nodes) ==
    {[v \in nodes |-> 0]}
       \cup {[v \in nodes |-> IF v = u THEN 1 ELSE 0] :
                u \in {w \in nodes : w + MaxRaised >= Cardinality(nodes)}}

\* The scores eigs returns: the dominant eigenvector, normalised and
\* positive, each entry off by the solver's rounding error rnd[v].
EigenvectorCentrality(g, rnd) ==
    LET level == EigenvectorOrder(g)
    IN Table([v \in g.nodes |-> [level |-> level[v], off |-> rnd[v]]])

---------------------------------------------------------------------------
(* Spectrum and energy *)

\* nx.to_numpy_array(G): the symmetric 0/1 matrix, given by its order and the
\* positions of its ones.
ToNumpyArray(g) ==
    [order |-> Order(g), ones |-> g.edges \cup {<<e[2], e[1]>> : e \in g.edges}]

\* np.linalg.eigvals(A): the eigenvalues of A.
Eigvals(g) == [eigenvalues_of |-> ToNumpyArray(g)]

\* np.sum(np.abs(eigenvals)).
Energy(ev) == [sum_abs |-> ev]

\* sorted(np.abs(eigenvals), reverse=True).
Spectrum(ev) == [sorted_abs |-> ev]

---------------------------------------------------------------------------
(* plot_topk: ranking *)

\* metric_dict.items(): the keys 0..m-1 in insertion order.
Items(d) == Table([i \in 1..Cardinality(DOMAIN d) |-> <<i - 1, d[i - 1]>>])

\* Variant: of two items with equal scores the later one is placed first.
RankLaterFirst(items, i) ==
    1 + Cardinality({j \in 1..Len(items) :
                        \/ FLess(items[i][2], items[j][2])
                        \/ j > i /\ ~FLess(items[j][2], items[i][2])})

\* Where a stable descending sort puts items[i]: behind every item with a
\* larger score and behind the earlier items with an equal score.
Rank(items, i) ==
    1 + Cardinality({j \in 1..Len(items) :
                        \/ FLess(items[i][2], items[j][2])
                        \/ j < i /\ ~FLess(items[j][2], items[i][2])})

\* sorted(items, key=lambda x: x[1], reverse=True).
SortedDesc(items) ==
    LET rank == Table([i \in 1..Len(items) |-> Rank(items, i)])
    IN Table([r \in 1..Len(items) |->
                items[CHOOSE i \in 1..Len(items) : rank[i] = r]])

\* s[:j] of a Python list.
Slice(s, j) ==
    IF j >= 0 THEN SubSeq(s, 1, Min(j, Len(s)))
    ELSE SubSeq(s, 1, Max(Len(s) + j, 0))

\* Variant: the sorted items without the [:k].
TopKUnsliced(d, kk) == SortedDesc(Items(d))

\* Line 47: sorted(metric_dict.items(), key=score, reverse=True)[:k].
TopK(d, kk) == Slice(SortedDesc(Items(d)), kk)

---------------------------------------------------------------------------
(* The run *)

\* State of a call that has not executed anything yet.
Fresh ==
    /\ G = None
    /\ deg_cent = None /\ close_cent = None /\ betw_cent = None /\ eig_cent = None
    /\ degrees = None
    /\ metric_dict = None /\ k = None /\ topk = None
    /\ top_degree = None /\ top_close = None /\ top_betw = None /\ top_eig = None
    /\ eigenvals = None /\ graph_energy = None
    /\ vis = <<>> /\ text = <<>>
    /\ report = <<>> /\ err = None

\* The arguments tried: p = 0 and p = 1 up to MaxN nodes and for the default
\* n, every other p (where every edge set can arise, or p is no probability)
\* up to MaxRandN nodes.
Arguments ==
    {a \in NValues \X PValues \X Seeds : a[2] \notin {0, 100} => a[1] <= MaxRandN}

Init ==
    /\ \E a \in Arguments : n = a[1] /\ p = a[2] /\ seed = a[3]
    /\ pc = "generate"
    /\ mt = {} /\ np_rand = 0 /\ arpack = 0
    /\ run = 1 /\ prev = None
    /\ Fresh

\* An uncaught exception leaves analyze_network: nothing is printed or returned.
Raised(e) ==
    /\ pc' = "raised"
    /\ err' = e
    /\ UNCHANGED <<text, report>>

\* plt.show() on the current figure.
Show(fig, kind, data) == Append(vis, [fig |-> fig, kind |-> kind, data |-> data])

\* Line 15: an exception of the generator leaves analyze_network before a
\* graph is assigned.
Generate ==
    /\ pc = "generate"
    /\ IF GeneratorError(n, p) # None
       THEN /\ Raised(GeneratorError(n, p))
            /\ UNCHANGED <<G, mt>>
       ELSE /\ \E out \in Outputs(mt, DrawsNeeded(n, p)) :
                  /\ mt' = {out}
                  /\ G' = ErdosRenyi(n, p, out)
            /\ pc' = "draw_raw"
            /\ UNCHANGED <<text, report, err>>
    /\ UNCHANGED <<args, np_rand, arpack, cents, degrees, frame, tops, spect,
                   vis, hist>>

\* spring_layout(G) with seed=None: the start positions of two or more nodes
\* are drawn from the global numpy state; smaller graphs need no draw.
LayoutDraws(g) == IF Order(g) >= 2 THEN 1 ELSE 0

\* Lines 19-22: nx.draw lays the graph out with spring_layout.
DrawRaw ==
    /\ pc = "draw_raw"
    /\ vis' = Show(1, "raw layout", [graph |-> G, layout |-> np_rand])
    /\ np_rand' = np_rand + LayoutDraws(G)
    /\ pc' = "draw_spring"
    /\ UNCHANGED <<args, G, mt, arpack, cents, degrees, frame, tops, spect,
                   text, report, err, hist>>

\* Lines 25-28.
DrawSpring ==
    /\ pc = "draw_spring"
    /\ vis' = Show(2, "force-directed layout", [graph |-> G, layout |-> np_rand])
    /\ np_rand' = np_rand + LayoutDraws(G)
    /\ pc' = "degree"
    /\ UNCHANGED <<args, G, mt, arpack, cents, degrees, frame, tops, spect,
                   text, report, err, hist>>

\* Line 31.
ComputeDegree ==
    /\ pc = "degree"
    /\ deg_cent' = DegreeCentrality(G)
    /\ pc' = "closeness"
    /\ UNCHANGED <<args, G, proc, close_cent, betw_cent, eig_cent, degrees, frame,
                   tops, spect, sinks, report, err, hist>>

\* Line 32.
ComputeCloseness ==
    /\ pc = "closeness"
    /\ close_cent' = ClosenessCentrality(G)
    /\ pc' = "betweenness"
    /\ UNCHANGED <<args, G, proc, deg_cent, betw_cent, eig_cent, degrees, frame,
                   tops, spect, sinks, report, err, hist>>

\* Line 33.
ComputeBetweenness ==
    /\ pc = "betweenness"
    /\ betw_cent' = BetweennessCentrality(G)
    /\ pc' = "eigenvector"
    /\ UNCHANGED <<args, G, proc, deg_cent, close_cent, eig_cent, degrees, frame,
                   tops, spect, sinks, report, err, hist>>

\* Line 34: the solver starts from a vector drawn from its own process-wide
\* state, so its rounding error is not a function of the arguments.
ComputeEigenvector ==
    /\ pc = "eigenvector"
    /\ IF EigenvectorError(G) # None
       THEN /\ Raised(EigenvectorError(G))
            /\ UNCHANGED <<eig_cent, arpack>>
       ELSE /\ \E rnd \in RoundingErrors(G.nodes) :
                  eig_cent' = EigenvectorCentrality(G, rnd)
            /\ arpack' = arpack + 1
            /\ pc' = "histogram"
            /\ UNCHANGED <<text, report, err>>
    /\ UNCHANGED <<args, G, mt, np_rand, deg_cent, close_cent, betw_cent, degrees,
                   frame, tops, spect, vis, hist>>

\* Variant: the histogram is drawn but never shown.
HistogramUnshown ==
    /\ pc = "histogram"
    /\ degrees' = [i \in 1..Order(G) |-> Degree(G, i - 1)]
    /\ IF degrees' = <<>>
       THEN Raised("ValueError") /\ vis' = vis
       ELSE /\ vis' = vis
            /\ pc' = "top_degree"
            /\ UNCHANGED <<text, report, err>>
    /\ UNCHANGED <<args, G, proc, cents, frame, tops, spect, hist>>

\* Lines 37-43: min() of an empty list raises.
Histogram ==
    /\ pc = "histogram"
    /\ degrees' = [i \in 1..Order(G) |-> Degree(G, i - 1)]
    /\ IF degrees' = <<>>
       THEN Raised("ValueError") /\ vis' = vis
       ELSE /\ vis' = Show(3, "degree histogram", degrees')
            /\ pc' = "top_degree"
            /\ UNCHANGED <<text, report, err>>
    /\ UNCHANGED <<args, G, proc, cents, frame, tops, spect, hist>>

\* Lines 46-55, the body of plot_topk: zip(*topk) of an empty list cannot be
\* unpacked into nodes and values.
PlotTopk(d, kk, title, fig, after) ==
    /\ metric_dict' = d
    /\ k' = kk
    /\ topk' = TopK(d, kk)
    /\ IF topk' = <<>>
       THEN Raised("ValueError") /\ vis' = vis
       ELSE /\ vis' = Show(fig, "bar chart", [title |-> title, series |-> topk'])
            /\ pc' = after
            /\ UNCHANGED <<text, report, err>>

\* Line 57.
TopDegree ==
    /\ pc = "top_degree"
    /\ PlotTopk(deg_cent, TopChart, "degree", 4, "top_close")
    /\ top_degree' = IF pc' = "raised" THEN top_degree ELSE topk'
    /\ UNCHANGED <<args, G, proc, cents, degrees, top_close, top_betw, top_eig,
                   spect, hist>>

\* Line 58.
TopCloseness ==
    /\ pc = "top_close"
    /\ PlotTopk(close_cent, TopChart, "closeness", 5, "top_betw")
    /\ top_close' = IF pc' = "raised" THEN top_close ELSE topk'
    /\ UNCHANGED <<args, G, proc, cents, degrees, top_degree, top_betw, top_eig,
                   spect, hist>>

\* Line 59.
TopBetweenness ==
    /\ pc = "top_betw"
    /\ PlotTopk(betw_cent, TopChart, "betweenness", 6, "top_eig")
    /\ top_betw' = IF pc' = "raised" THEN top_betw ELSE topk'
    /\ UNCHANGED <<args, G, proc, cents, degrees, top_degree, top_close, top_eig,
                   spect, hist>>

\* Line 60.
TopEigenvector ==
    /\ pc = "top_eig"
    /\ PlotTopk(eig_cent, TopChart, "eigenvector", 7, "energy")
    /\ top_eig' = IF pc' = "raised" THEN top_eig ELSE topk'
    /\ UNCHANGED <<args, G, proc, cents, degrees, top_degree, top_close, top_betw,
                   spect, hist>>

\* Lines 63-65.
GraphEnergy ==
    /\ pc = "energy"
    /\ eigenvals' = Eigvals(G)
    /\ graph_energy' = Energy(eigenvals')
    /\ pc' = "spectrum"
    /\ UNCHANGED <<args, G, proc, cents, degrees, frame, tops, sinks, report, err,
                   hist>>

\* Lines 67-72.
PlotSpectrum ==
    /\ pc = "spectrum"
    /\ vis' = Show(8, "eigenvalue spectrum", Spectrum(eigenvals))
    /\ pc' = "print"
    /\ UNCHANGED <<args, G, proc, cents, degrees, frame, tops, spect, text,
                   report, err, hist>>

\* Lines 75-79.
Summary ==
    <<[label |-> "Top-5 by Degree:", value |-> Slice(top_degree, TopReport)],
      [label |-> "Top-5 by Closeness:", value |-> Slice(top_close, TopReport)],
      [label |-> "Top-5 by Betweenness:", value |-> Slice(top_betw, TopReport)],
      [label |-> "Top-5 by Eigenvector:", value |-> Slice(top_eig, TopReport)],
      [label |-> "Graph Energy:", value |-> graph_energy]>>

PrintSummary ==
    /\ pc = "print"
    /\ text' = text \o Summary
    /\ pc' = "return"
    /\ UNCHANGED <<args, G, proc, cents, degrees, frame, tops, spect, vis,
                   report, err, hist>>

\* Variant: the betweenness list returned under "eigenvector" as well.
ReportCopied ==
    [degree |-> Slice(top_degree, TopReport),
     closeness |-> Slice(top_close, TopReport),
     betweenness |-> Slice(top_betw, TopReport),
     eigenvector |-> Slice(top_betw, TopReport),
     energy |-> graph_energy]

\* Lines 81-87.
Report ==
    [degree |-> Slice(top_degree, TopReport),
     closeness |-> Slice(top_close, TopReport),
     betweenness |-> Slice(top_betw, TopReport),
     eigenvector |-> Slice(top_eig, TopReport),
     energy |-> graph_energy]

Return ==
    /\ pc = "return"
    /\ report' = <<Report>>
    /\ pc' = "returned"
    /\ UNCHANGED <<args, G, proc, cents, degrees, frame, tops, spect, sinks, err,
                   hist>>

\* The caller calls analyze_network again with the same arguments; the process
\* keeps its random states, the call starts from fresh locals.
Rerun ==
    /\ pc \in {"returned", "raised"}
    /\ run < MaxRuns
    /\ prev' = [graph |-> G, report |-> report, err |-> err, vis |-> vis]
    /\ run' = run + 1
    /\ pc' = "generate"
    /\ G' = None
    /\ deg_cent' = None /\ close_cent' = None /\ betw_cent' = None
    /\ eig_cent' = None /\ degrees' = None
    /\ metric_dict' = None /\ k' = None /\ topk' = None
    /\ top_degree' = None /\ top_close' = None /\ top_betw' = None
    /\ top_eig' = None
    /\ eigenvals' = None /\ graph_energy' = None
    /\ vis' = <<>> /\ text' = <<>>
    /\ report' = <<>> /\ err' = None
    /\ UNCHANGED <<args, proc>>

Next ==
    \/ Generate
    \/ DrawRaw
    \/ DrawSpring
    \/ ComputeDegree
    \/ ComputeCloseness
    \/ ComputeBetweenness
    \/ ComputeEigenvector
    \/ Histogram
    \/ TopDegree
    \/ TopCloseness
    \/ TopBetweenness
    \/ TopEigenvector
    \/ GraphEnergy
    \/ PlotSpectrum
    \/ PrintSummary
    \/ Return
    \/ Rerun

Spec == Init /\ [][Next]_vars

---------------------------------------------------------------------------
(* plot_topk on its own: every score mapping and every k *)

\* 0.0, the double next below 1.0, and 1.0.
ScoreValues == {Zero, BelowOne, One}

RankInit ==
    /\ \E m \in 0..MaxM :
          /\ n = m
          /\ \E d \in [Nodes(m) -> ScoreValues] : metric_dict = d
    /\ k \in (1..MaxK) \cup {TopChart}
    /\ p = 0 /\ seed = 0
    /\ pc = "plot_topk"
    /\ mt = {} /\ np_rand = 0 /\ arpack = 0
    /\ run = 1 /\ prev = None
    /\ G = None
    /\ deg_cent = None /\ close_cent = None /\ betw_cent = None /\ eig_cent = None
    /\ degrees = None
    /\ topk = None
    /\ top_degree = None /\ top_close = None /\ top_betw = None /\ top_eig = None
    /\ eigenvals = None /\ graph_energy = None
    /\ vis = <<>> /\ text = <<>>
    /\ report = <<>> /\ err = None

\* top = plot_topk(metric_dict, title, fig, k).
RankPlot ==
    /\ pc = "plot_topk"
    /\ PlotTopk(metric_dict, k, "scores", 4, "slice")
    /\ top_degree' = IF pc' = "raised" THEN top_degree ELSE topk'
    /\ UNCHANGED <<args, G, proc, cents, degrees, top_close, top_betw, top_eig,
                   spect, hist>>

\* top[:5], as the summary and the report take it.
RankSlice ==
    /\ pc = "slice"
    /\ text' = Append(text, [label |-> "Top-5:", value |-> Slice(top_degree, TopReport)])
    /\ pc' = "returned"
    /\ UNCHANGED <<args, G, proc, cents, degrees, frame, tops, spect, vis,
                   report, err, hist>>

RankNext ==
    \/ RankPlot
    \/ RankSlice

RankSpec == RankInit /\ [][RankNext]_vars

---------------------------------------------------------------------------
(* Properties *)

\* Positions at which the local named has been assigned.
BeforeDegree == {"generate", "draw_raw", "draw_spring", "degree"}
BeforeEigenvector == BeforeDegree \cup {"closeness", "betweenness"}
AfterEigenvector ==
    {"histogram", "top_degree", "top_close", "top_betw", "top_eig", "energy",
     "spectrum", "print", "return", "returned"}

\* The generator has returned a graph.
Generated == pc # "generate" /\ ~(pc = "raised" /\ GeneratorError(n, p) # None)

\* x and y are the same double or neighbours.
Near(x, y) ==
    IF x = Zero \/ y = Zero THEN x = y
    ELSE x = y \/ x = Successor(y) \/ y = Successor(x)

\* Number of edges of G at node v.
EdgesAt(v) == Cardinality({e \in G.edges : e[1] = v \/ e[2] = v})

\* The list (0, x), (1, x), ... of length len.
Constant(len, x) == [i \in 1..len |-> <<i - 1, x>>]

\* What a delivery shows, without its data.
Label(d) ==
    IF d.kind = "bar chart" THEN <<d.fig, d.kind, d.data.title>> ELSE <<d.fig, d.kind>>

Delivered == [i \in 1..Len(vis) |-> Label(vis[i])]

EightFigures ==
    <<<<1, "raw layout">>, <<2, "force-directed layout">>, <<3, "degree histogram">>,
      <<4, "bar chart", "degree">>, <<5, "bar chart", "closeness">>,
      <<6, "bar chart", "betweenness">>, <<7, "bar chart", "eigenvector">>,
      <<8, "eigenvalue spectrum">>>>

RankDone == pc \in {"slice", "returned", "raised"}

\* C1: plot_topk's sort-and-slice yields exactly min(k, m) entries of a mapping
\* with m entries; it never fails on a mapping that has an entry, and when k
\* is at least m the list (and its [:5], up to 5) has one entry per node.
C1_TopKLength ==
    RankDone =>
        /\ Len(topk) = Min(k, Cardinality(DOMAIN metric_dict))
        /\ (n >= 1 => pc # "raised")
        /\ (k >= n => {topk[i][1] : i \in 1..Len(topk)} = Nodes(n))
        /\ (pc = "returned" =>
                /\ top_degree = topk
                /\ Len(text[1].value) = Min(TopReport, Min(k, n))
                /\ (n < TopReport /\ k >= n =>
                        {text[1].value[i][1] : i \in 1..n} = Nodes(n)))

C1_Clamped ==
    /\ pc = "returned"
    /\ k = TopChart
    /\ n = 3
    /\ Len(topk) = 3
    /\ Len(text[1].value) = 3

\* C2: the list plot_topk builds holds items of the mapping, no node twice,
\* never a smaller score before a larger one, and of two entries with equal
\* scores the one with the smaller node id first.
C2_TopKOrder ==
    RankDone =>
        /\ \A i \in 1..Len(topk) : topk[i] = <<topk[i][1], metric_dict[topk[i][1]]>>
        /\ \A i, j \in 1..Len(topk) :
              i < j =>
                 /\ ~FLess(topk[i][2], topk[j][2])
                 /\ (topk[i][2] = topk[j][2] => topk[i][1] < topk[j][1])
        /\ \A v \in DOMAIN metric_dict :
              (\A i \in 1..Len(topk) : topk[i][1] # v) =>
                 /\ Len(topk) = k
                 /\ ~FLess(topk[Len(topk)][2], metric_dict[v])

C2_TiesAndGaps ==
    /\ pc = "returned"
    /\ Len(topk) >= 4
    /\ Len(topk) < n
    /\ \E i \in 1..(Len(topk) - 1) : topk[i][2] = topk[i + 1][2]
    /\ \E i \in 1..(Len(topk) - 1) : FLess(topk[i + 1][2], topk[i][2])
    /\ \E v \in 1..(n - 1) : FLess(metric_dict[v - 1], metric_dict[v])

\* C3: the visualization sink receives the figures in the order raw layout,
\* force-directed layout, degree histogram, the four top-10 bar charts (degree,
\* closeness, betweenness, eigenvector), eigenvalue spectrum; a completed run
\* has delivered all eight, and nothing is printed or returned before the
\* eighth.
C3_DeliveryOrder ==
    /\ Len(vis) <= 8
    /\ Delivered = SubSeq(EightFigures, 1, Len(vis))
    /\ (pc = "returned" => Len(vis) = 8 /\ text # <<>> /\ report # <<>>)
    /\ (text # <<>> => Len(vis) = 8)
    /\ (report # <<>> => text # <<>>)

C3_AllDelivered ==
    /\ pc = "returned"
    /\ Delivered = EightFigures
    /\ vis[4].data.series = top_degree
    /\ vis[7].data.series = top_eig

\* C4, as claimed: a run in which a stage fails has delivered nothing to the
\* visualization sink, nothing to the text sink, and returns no report.
C4_NothingDelivered ==
    err # None => vis = <<>> /\ text = <<>> /\ report = <<>>

\* C5, as claimed: with n <= 0, p < 0 or p > 1 the generation fails (the
\* spec's InvalidParameter), so the call never gets past line 15.
C5_RejectsBadParameters ==
    (n <= 0 \/ p < 0 \/ p > 100) =>
        \/ pc = "generate"
        \/ pc = "raised" /\ GeneratorError(n, p) # None /\ vis = <<>>

\* C6: the returned report holds, for each metric, the first five entries of
\* the ranking of that metric's full score mapping (all of them when n < 5),
\* which are the first five of the plotted top-10 list, and the energy.
C6_ReportIsTopFive ==
    pc = "returned" =>
        /\ report = <<[degree |-> TopK(deg_cent, TopReport),
                       closeness |-> TopK(close_cent, TopReport),
                       betweenness |-> TopK(betw_cent, TopReport),
                       eigenvector |-> TopK(eig_cent, TopReport),
                       energy |-> graph_energy]>>
        /\ graph_energy = Energy(Eigvals(G))
        /\ top_degree = TopK(deg_cent, TopChart)
        /\ top_close = TopK(close_cent, TopChart)
        /\ top_betw = TopK(betw_cent, TopChart)
        /\ top_eig = TopK(eig_cent, TopChart)
        /\ \A f \in {"degree", "closeness", "betweenness", "eigenvector"} :
              Len(report[1][f]) = Min(n, TopReport)

C6_ReportTruncated ==
    /\ pc = "returned"
    /\ n > TopChart
    /\ Len(top_eig) = TopChart
    /\ Len(report[1].eigenvector) = TopReport
    /\ \E i \in 1..(TopReport - 1) :
          report[1].eigenvector[i][1] > report[1].eigenvector[i + 1][1]

\* C7, as claimed: the degree centrality that line 31 assigns to a node is
\* its number of neighbours over n - 1 when n >= 2, and 0 in the graph of
\* one node.
C7_DegreeCentralityZero ==
    (Generated /\ pc \notin BeforeDegree) =>
        /\ DOMAIN deg_cent = Nodes(n)
        /\ (pc = "closeness" /\ n >= 2) =>
              \A v \in Nodes(n) : deg_cent[v] = DivInt(FromInt(EdgesAt(v)), n - 1)
        /\ n = 1 => deg_cent[0] = Zero

\* C7, amended: the degree centrality that line 31 assigns to a node is its
\* number of neighbours over n - 1 when n >= 2, up to one unit in the last
\* place of the double (the product d * (1 / (n - 1)) is rounded twice), and
\* 1 in the graph of one node.
C7_DegreeCentrality ==
    (Generated /\ pc \notin BeforeDegree) =>
        /\ DOMAIN deg_cent = Nodes(n)
        /\ (pc = "closeness" /\ n >= 2) =>
              \A v \in Nodes(n) :
                  Near(deg_cent[v], DivInt(FromInt(EdgesAt(v)), n - 1))
        /\ n = 1 => deg_cent[0] = One

C7_SingleNode ==
    /\ pc = "closeness"
    /\ n = 1
    /\ deg_cent[0] = One

\* C8, as claimed: in the complete graph that p = 1 produces on n >= 3 nodes
\* every node has degree centrality 1, closeness centrality 1 and betweenness
\* centrality 0, and the top-10 and top-5 lists of these three metrics are the
\* nodes 0, 1, 2, ... in this order with that score.
C8_CompleteGraph ==
    (p = 100 /\ n >= 3 /\ pc = "returned") =>
        /\ G.edges = AllPairs(n)
        /\ \A v \in Nodes(n) :
              deg_cent[v] = One /\ close_cent[v] = One /\ betw_cent[v] = Zero
        /\ top_degree = Constant(Min(n, TopChart), One)
        /\ top_close = Constant(Min(n, TopChart), One)
        /\ top_betw = Constant(Min(n, TopChart), Zero)
        /\ report[1].degree = Constant(Min(n, TopReport), One)
        /\ report[1].closeness = Constant(Min(n, TopReport), One)
        /\ report[1].betweenness = Constant(Min(n, TopReport), Zero)

\* The degree centrality in the complete graph on m nodes: 1 below the
\* default n, and the double next below 1 for the default n.
CompleteDegree(m) == IF m < DefaultN THEN One ELSE BelowOne

\* C8, amended: in the complete graph that p = 1 produces on n >= 3 nodes
\* every node has closeness centrality 1 and betweenness centrality 0; the
\* degree centrality (n - 1) * (1 / (n - 1)) is 1 for every n from 3 to 49 and
\* 0.9999999999999999, the double next below 1, for the default n = 50; the
\* top-10 and top-5 lists of the three metrics are the nodes 0, 1, 2, ... in
\* this order with that score.
C8_CompleteGraphRounded ==
    /\ (p = 100 /\ n >= 3 /\ pc = "returned") =>
        /\ G.edges = AllPairs(n)
        /\ \A v \in Nodes(n) :
              /\ deg_cent[v] = CompleteDegree(n)
              /\ close_cent[v] = One
              /\ betw_cent[v] = Zero
        /\ top_degree = Constant(Min(n, TopChart), CompleteDegree(n))
        /\ top_close = Constant(Min(n, TopChart), One)
        /\ top_betw = Constant(Min(n, TopChart), Zero)
        /\ report[1].degree = Constant(Min(n, TopReport), CompleteDegree(n))
        /\ report[1].closeness = Constant(Min(n, TopReport), One)
        /\ report[1].betweenness = Constant(Min(n, TopReport), Zero)
    /\ (p = 100 /\ n >= 3 /\ pc = "closeness" /\ run = 1) =>
        \A m \in 3..n :
            Mul(FromInt(m - 1), DivInt(One, m - 1)) = CompleteDegree(m)

C8_CompleteByDefault ==
    /\ p = 100
    /\ n = DefaultN
    /\ pc = "returned"
    /\ Cardinality(G.edges) = 1225
    /\ deg_cent[DefaultN - 1] = BelowOne
    /\ close_cent[DefaultN - 1] = One
    /\ Len(top_degree) = TopChart
    /\ Len(report[1].betweenness) = TopReport

\* C9: in the edgeless graph that p = 0 produces on n >= 2 nodes every node
\* has closeness and betweenness centrality 0, and the eigenvector centrality
\* is refused as ill-defined (AmbiguousSolution): the run ends there, with no
\* report.
C9_EdgelessGraph ==
    (p = 0 /\ n >= 2) =>
        /\ pc \notin BeforeEigenvector =>
              /\ G.edges = {}
              /\ \A v \in Nodes(n) : close_cent[v] = Zero /\ betw_cent[v] = Zero
        /\ pc \notin AfterEigenvector
        /\ pc = "raised" => err = "AmbiguousSolution" /\ report = <<>>

C9_EdgelessRefused ==
    /\ p = 0
    /\ n >= 3
    /\ pc = "raised"
    /\ err = "AmbiguousSolution"
    /\ close_cent[n - 1] = Zero

\* C10, as claimed: a second run with the same n, p and seed generates the
\* same edges and returns the same report as the first.
C10_SameReport ==
    (run > 1 /\ pc \in {"returned", "raised"}) =>
        /\ G = prev.graph
        /\ err = prev.err
        /\ report = prev.report

\* What a run leaves behind whatever state the process is in: the edges, the
\* error if any, the degree, closeness and betweenness lists and the energy,
\* and the eigenvector list up to the solver's rounding error.
C10_SameUpToRounding ==
    (run > 1 /\ pc \in {"returned", "raised"}) =>
        /\ G = prev.graph
        /\ err = prev.err
        /\ pc = "returned" =>
              /\ report[1].degree = prev.report[1].degree
              /\ report[1].closeness = prev.report[1].closeness
              /\ report[1].betweenness = prev.report[1].betweenness
              /\ report[1].energy = prev.report[1].energy
              /\ Len(report[1].eigenvector) = Len(prev.report[1].eigenvector)
              /\ \A i \in 1..Len(report[1].eigenvector) :
                    report[1].eigenvector[i][2].level
                        = prev.report[1].eigenvector[i][2].level

===========================================================================
